---- MODULE Spec2Model ----
(***************************************************************************)
(* legacy_populate: the content resolution and population pipeline of      *)
(* cnx-utils (src/legacy_populate/main.py, parsers.py).                    *)
(*                                                                         *)
(* The model follows the Python code: the Resolver (document cache,        *)
(* version list, per-version source and metadata), the module-level SQL    *)
(* helpers, the Populator (a recursive generator, modelled by an explicit  *)
(* stack of frames) and main.  The remote host and the pre-seeded tables   *)
(* of the database are the environment; they are fixed per behaviour.      *)
(***************************************************************************)
EXTENDS Integers, Sequences, FiniteSets, TLC

VARIABLES
    host,        \* the remote content host (what requests.get answers)
    cache,       \* modules_cache: url -> document (sqlite, persists across runs)
    db,          \* the PostgreSQL tables written by the Populator
    serial,      \* the sequences behind the RETURNING ids (never rolled back)
    use_cache,   \* Resolver.is_cache_enabled of the current process
    stack,       \* the nested Populator.__call__ generators, outermost first
    idents,      \* main's list of yielded idents
    status,      \* "idle" | "running" | "done" | "failed"
    failure,     \* the exception that ended the process ("" if none)
    trace,       \* what report_activity_on_ident printed in this process
    last,        \* the handler that ran last, with what it observed
    runs,        \* processes started so far
    modules,     \* args.modules of the current process (one id)
    prev,        \* the previous process: its argument, outcome, cache switch
    db0,         \* the tables when the current process started
    invalidated, \* urls deleted after a failed extraction, not fetched since
    answered,    \* id -> what get_versions returned from its page still cached
    procs,       \* two Populators at work on one database (SpecRace)
    unique       \* whether the database has UNIQUE (moduleid, version) (SpecRace)

vars == <<host, cache, db, serial, use_cache, stack, idents, status, failure,
          trace, last, runs, modules, prev, db0, invalidated, answered, procs,
          unique>>

(***************************************************************************)
(* Bounds of the model.                                                    *)
(***************************************************************************)
MaxRuns == 2      \* processes (runs of main) per behaviour
MaxDepth == 4     \* stands for the interpreter's recursion limit

(***************************************************************************)
(* Constants of main.py.                                                   *)
(***************************************************************************)
MODULE_ == "Module"
COLLECTION == "Collection"
TYPES_TO_FILENAMES == [Module |-> "index.cnxml", Collection |-> "collection.xml"]

\* Python's None where a row id is expected (fetchone() found nothing).
None == 0
\* Python's None where a document is expected.
NoDocument == [kind |-> "None"]

\* ids are <<first letter, number>>: "m100" is <<"m", 100>>.
startswith(id, letter) == id[1] = letter

id_to_type(id) ==
    IF startswith(id, "m") THEN MODULE_
    ELSE IF startswith(id, "c") THEN COLLECTION
    ELSE "ValueError"

\* Every type mapped to the module filename.
type_to_filename_module_only(type) == TYPES_TO_FILENAMES[MODULE_]

type_to_filename(type) == TYPES_TO_FILENAMES[type]

(***************************************************************************)
(* Sequence helpers.                                                       *)
(***************************************************************************)
\* The list left in the order it came in.
NotReversed(s) == s

Reverse(s) == [i \in 1..Len(s) |-> s[Len(s) + 1 - i]]

Range(s) == {s[i] : i \in 1..Len(s)}

\* list.index(x): the first position of x, 0 when x is not in the list.
IndexOf(s, x) ==
    IF \E i \in 1..Len(s) : s[i] = x
    THEN CHOOSE i \in 1..Len(s) : s[i] = x /\ \A j \in 1..(i - 1) : s[j] # x
    ELSE 0

\* list.pop(k)
RemoveAt(s, k) == [i \in 1..(Len(s) - 1) |-> IF i < k THEN s[i] ELSE s[i + 1]]

Count(s, x) == Cardinality({i \in 1..Len(s) : s[i] = x})

(***************************************************************************)
(* Documents as the host serves them.                                      *)
(***************************************************************************)
CC_BY == "http://creativecommons.org/licenses/by/3.0/"
OTHER_LICENSE == "http://example.org/licenses/unlisted"

\* A content_info page; links are the version links, newest first.
HistoryPage(links) == [kind |-> "html", wellformed |-> TRUE, links |-> links]
\* A body lxml.html cannot parse (an empty response).
EmptyPage == [kind |-> "html", wellformed |-> FALSE, links |-> <<>>]
\* What the host answers for a URL it does not know.
NotFound == [kind |-> "html", wellformed |-> TRUE, links |-> <<>>]

\* A CNXML / CollXML source document.  license "" is a document without
\* md:license; children are the @document attributes of its module elements.
Xml(cid, ver, lic, kws, subj, children) ==
    [kind |-> "xml", wellformed |-> TRUE, cid |-> cid, ver |-> ver,
     abstract |-> "Intro", license |-> lic, keywords |-> kws,
     subjects |-> subj, children |-> children]
Garbled(cid, ver) ==
    [kind |-> "xml", wellformed |-> FALSE, cid |-> cid, ver |-> ver,
     abstract |-> "", license |-> "", keywords |-> <<>>,
     subjects |-> <<>>, children |-> <<>>]

\* The answer to .../objectIds and to .../<filename>.
ObjectIds(names) == [kind |-> "list", names |-> names]
Resource(mimetype, data) == [kind |-> "bin", content_type |-> mimetype, data |-> data]

(***************************************************************************)
(* parsers.py                                                              *)
(***************************************************************************)
ParseError == [ok |-> FALSE, abstract |-> "", license_url |-> "",
               metadata |-> [moduleid |-> <<"", 0>>, version |-> "",
                             portal_type |-> ""],
               keywords |-> <<>>, subjects |-> <<>>]

\* lxml.etree.parse followed by _parse_common_elements; the caller sets
\* portal_type.  A document without md:license raises ValueError.
_parse_common_elements(document, portal_type) ==
    IF document.kind # "xml" \/ ~document.wellformed \/ document.license = ""
    THEN ParseError
    ELSE [ok |-> TRUE,
          abstract |-> document.abstract,
          license_url |-> document.license,
          metadata |-> [moduleid |-> document.cid, version |-> document.ver,
                        portal_type |-> portal_type],
          keywords |-> document.keywords,
          subjects |-> document.subjects]

parse_collection_xml(document) == _parse_common_elements(document, "Collection")

parse_module_xml(document) == _parse_common_elements(document, "Module")

\* The contents in reverse document order.
parse_collection_xml_contents_reversed(file) ==
    IF file.kind = "xml" /\ file.wellformed THEN Reverse(file.children)
    ELSE <<>>

\* The contents with one entry per distinct id.
parse_collection_xml_contents_distinct(file) ==
    IF file.kind = "xml" /\ file.wellformed
    THEN SelectSeq([k \in 1..Len(file.children) |->
                       IF IndexOf(file.children, file.children[k]) = k
                       THEN file.children[k] ELSE <<"", 0>>],
                   LAMBDA mid : mid # <<"", 0>>)
    ELSE <<>>

\* xpath('//colxml:module/@document') in document order.
parse_collection_xml_contents(file) ==
    IF file.kind = "xml" /\ file.wellformed THEN file.children ELSE <<>>

\* TYPES_TO_PARSERS[type](document); id_to_type's ValueError passes through.
parse_to_metadata(type, document) ==
    IF type = MODULE_ THEN parse_module_xml(document)
    ELSE IF type = COLLECTION THEN parse_collection_xml(document)
    ELSE ParseError

(***************************************************************************)
(* Resolver: urls, the document cache, the remote host.                    *)
(***************************************************************************)
to_url(mid, version) == <<mid, version>>

to_source_url(mid, version) == to_url(mid, version) \o <<"source">>

requests_get(h, url) ==
    IF url \in DOMAIN h.content THEN h.content[url] ELSE NotFound

\* A lookup that finds no row.
_retrieve_document_miss(c, url) == NoDocument

_retrieve_document(c, url) ==
    IF url \in DOMAIN c THEN c[url] ELSE NoDocument

\* INSERT INTO modules_cache: url is the PRIMARY KEY, a second row for a url
\* is an sqlite3.IntegrityError.
_cache_document(c, url, document) ==
    IF url \in DOMAIN c
    THEN [ok |-> FALSE, cache |-> c]
    ELSE [ok |-> TRUE, cache |-> (url :> document) @@ c]

\* A DELETE that is never committed.
_invalidate_document_lost(c, url) == c

_invalidate_document(c, url) == [u \in DOMAIN c \ {url} |-> c[u]]

\* The block without the DELETE of the disabled cache.
obtain_document_keep_entry(h, c, enabled, url) ==
    LET found == IF enabled THEN _retrieve_document(c, url) ELSE NoDocument
        miss == found = NoDocument
        document == IF miss THEN requests_get(h, url) ELSE found
        stored == IF miss THEN _cache_document(c, url, document)
                  ELSE [ok |-> TRUE, cache |-> c]
    IN [ok |-> stored.ok, cache |-> stored.cache, document |-> document,
        hit |-> ~miss, requested |-> IF miss THEN 1 ELSE 0]

\* The block both get_versions and __call__ run to obtain the document of a
\* url: the cache when enabled, else (or on a miss) the host, then the store.
obtain_document(h, c, enabled, url) ==
    LET c1 == IF enabled THEN c ELSE _invalidate_document(c, url)
        found == IF enabled THEN _retrieve_document(c, url) ELSE NoDocument
        miss == found = NoDocument
        document == IF miss THEN requests_get(h, url) ELSE found
        stored == IF miss THEN _cache_document(c1, url, document)
                  ELSE [ok |-> TRUE, cache |-> c1]
    IN [ok |-> stored.ok, cache |-> stored.cache, document |-> document,
        hit |-> ~miss, requested |-> IF miss THEN 1 ELSE 0]

\* The literal 'latest' instead of the host's answer.
get_latest_version_literal(h, mid) == "latest"

\* GET .../getVersion, stripped; never cached.
get_latest_version(h, mid) ==
    IF mid \in DOMAIN h.getVersion THEN h.getVersion[mid] ELSE "Not Found"

\* lxml.html.parse and the xpath over the history section.
history_links(document) ==
    [ok |-> (document.kind = "html" => document.wellformed),
     links |-> IF document.kind = "html" THEN document.links ELSE <<>>]

get_versions(h, c, enabled, mid) ==
    LET latest_version == IF startswith(mid, "m") THEN "latest"
                          ELSE get_latest_version(h, mid)
        latest_calls == IF startswith(mid, "m") THEN 0 ELSE 1
        url == to_url(mid, latest_version) \o <<"content_info">>
        got == obtain_document(h, c, enabled, url)
        doc == history_links(got.document)
    IN  IF ~got.ok
        THEN [ok |-> FALSE, error |-> "IntegrityError", cache |-> got.cache,
              versions |-> <<>>, url |-> url, hit |-> got.hit,
              document |-> got.document, latest_calls |-> latest_calls,
              requested |-> got.requested, extraction |-> FALSE]
        ELSE IF ~doc.ok
        THEN [ok |-> FALSE, error |-> "ParserError",
              cache |-> _invalidate_document(got.cache, url),
              versions |-> <<>>, url |-> url, hit |-> got.hit,
              document |-> got.document, latest_calls |-> latest_calls,
              requested |-> got.requested, extraction |-> TRUE]
        ELSE [ok |-> TRUE, error |-> "", cache |-> got.cache,
              versions |-> Reverse(doc.links), url |-> url, hit |-> got.hit,
              document |-> got.document, latest_calls |-> latest_calls,
              requested |-> got.requested, extraction |-> FALSE]

\* The iteration without the collection workaround: the source of `version`
\* itself, and the version the document carries.
resolve_version_as_written(h, c, enabled, mid, version) ==
    LET url == to_source_url(mid, version)
        got == obtain_document(h, c, enabled, url)
        parsed == parse_to_metadata(id_to_type(mid), got.document)
    IN  IF ~got.ok
        THEN [ok |-> FALSE, error |-> "IntegrityError", cache |-> got.cache,
              data |-> ParseError, document |-> got.document, url |-> url,
              hit |-> got.hit, requested |-> got.requested,
              extraction |-> FALSE]
        ELSE IF ~parsed.ok
        THEN [ok |-> FALSE, error |-> "ValueError",
              cache |-> _invalidate_document(got.cache, url),
              data |-> ParseError, document |-> got.document, url |-> url,
              hit |-> got.hit, requested |-> got.requested,
              extraction |-> TRUE]
        ELSE [ok |-> TRUE, error |-> "", cache |-> got.cache,
              data |-> parsed, document |-> got.document, url |-> url,
              hit |-> got.hit, requested |-> got.requested,
              extraction |-> FALSE]

\* The iteration that writes the listed version into the document as well.
resolve_version_stamped(h, c, enabled, mid, version) ==
    LET source_version == IF startswith(mid, "c") THEN get_latest_version(h, mid)
                          ELSE version
        url == to_source_url(mid, source_version)
        got == obtain_document(h, c, enabled, url)
        parsed == parse_to_metadata(id_to_type(mid), got.document)
    IN  IF ~got.ok
        THEN [ok |-> FALSE, error |-> "IntegrityError", cache |-> got.cache,
              data |-> ParseError, document |-> got.document, url |-> url,
              hit |-> got.hit, requested |-> got.requested,
              extraction |-> FALSE]
        ELSE IF ~parsed.ok
        THEN [ok |-> FALSE, error |-> "ValueError",
              cache |-> _invalidate_document(got.cache, url),
              data |-> ParseError, document |-> got.document, url |-> url,
              hit |-> got.hit, requested |-> got.requested,
              extraction |-> TRUE]
        ELSE [ok |-> TRUE, error |-> "", cache |-> got.cache,
              data |-> [parsed EXCEPT !.metadata.version = version],
              document |-> [got.document EXCEPT !.ver = version], url |-> url,
              hit |-> got.hit, requested |-> got.requested,
              extraction |-> FALSE]

\* One iteration of Resolver.__call__: the pair yielded for `version`.
resolve_version(h, c, enabled, mid, version) ==
    LET source_version == IF startswith(mid, "c") THEN get_latest_version(h, mid)
                          ELSE version
        url == to_source_url(mid, source_version)
        got == obtain_document(h, c, enabled, url)
        parsed == parse_to_metadata(id_to_type(mid), got.document)
    IN  IF ~got.ok
        THEN [ok |-> FALSE, error |-> "IntegrityError", cache |-> got.cache,
              data |-> ParseError, document |-> got.document, url |-> url,
              hit |-> got.hit, requested |-> got.requested,
              extraction |-> FALSE]
        ELSE IF ~parsed.ok
        THEN [ok |-> FALSE, error |-> "ValueError",
              cache |-> _invalidate_document(got.cache, url),
              data |-> ParseError, document |-> got.document, url |-> url,
              hit |-> got.hit, requested |-> got.requested,
              extraction |-> TRUE]
        ELSE [ok |-> TRUE, error |-> "", cache |-> got.cache,
              data |-> [parsed EXCEPT !.metadata.version = version],
              document |-> got.document, url |-> url,
              hit |-> got.hit, requested |-> got.requested,
              extraction |-> FALSE]

(***************************************************************************)
(* The SQL helpers.  A cursor inside a connection block is the record      *)
(* s = [db, serial, err, ret, ret_type]: the tables as the transaction     *)
(* sees them, the sequences, the exception raised so far ("" if none) and  *)
(* what the last statement returned.  A helper called after an exception   *)
(* does nothing: the exception has already left the block.                 *)
(***************************************************************************)
Failed(s) == s.err # ""

Raise(s, e) == [s EXCEPT !.err = e]

\* The backend raising psycopg2.Error in statement <<step, k>> of a block.
Inject(s, fault, step, k) ==
    IF ~Failed(s) /\ fault = <<step, k>> THEN Raise(s, "psycopg2.Error") ELSE s

md5_hexdigest(file) == <<"md5", file>>

_insert_abstract(s, abstract_text) ==
    IF Failed(s) THEN s
    ELSE [s EXCEPT !.db.abstracts =
                       Append(@, [abstractid |-> s.serial.abstractid,
                                  abstract |-> abstract_text]),
                   !.serial.abstractid = @ + 1,
                   !.ret = s.serial.abstractid]

_find_license_id_by_url(s, url) ==
    LET Test(r) == r.url = url
        rows == SelectSeq(s.db.licenses, Test)
    IN  IF Failed(s) THEN s
        ELSE IF rows = <<>> THEN Raise(s, "TypeError")
        ELSE [s EXCEPT !.ret = rows[1].licenseid]

_insert_module(s, metadata) ==
    IF Failed(s) THEN s
    ELSE [s EXCEPT !.db.modules =
                       Append(@, [module_ident |-> s.serial.module_ident,
                                  moduleid |-> metadata.moduleid,
                                  version |-> metadata.version,
                                  portal_type |-> metadata.portal_type,
                                  abstractid |-> metadata.abstractid,
                                  licenseid |-> metadata.licenseid]),
                   !.serial.module_ident = @ + 1,
                   !.ret = s.serial.module_ident,
                   !.ret_type = metadata.portal_type]

\* The insertion without the lookup by md5: always a new blob.
_insert_module_file_always_new(s, module_id, filename, mimetype, file) ==
    IF Failed(s) THEN s
    ELSE [s EXCEPT !.db.files =
                       Append(@, [fileid |-> s.serial.fileid, file |-> file,
                                  md5 |-> md5_hexdigest(file)]),
                   !.serial.fileid = @ + 1,
                   !.db.module_files =
                       Append(@, [module_ident |-> module_id,
                                  fileid |-> s.serial.fileid,
                                  filename |-> filename,
                                  mimetype |-> mimetype]),
                   !.ret = s.serial.fileid]

\* The files table keeps the md5 of each blob beside it.
_insert_module_file(s, module_id, filename, mimetype, file) ==
    LET digest == md5_hexdigest(file)
        Test(r) == r.md5 = digest
        rows == SelectSeq(s.db.files, Test)
        file_id == IF rows = <<>> THEN s.serial.fileid ELSE rows[1].fileid
        files == IF rows = <<>>
                 THEN Append(s.db.files, [fileid |-> file_id, file |-> file,
                                          md5 |-> digest])
                 ELSE s.db.files
    IN  IF Failed(s) THEN s
        ELSE [s EXCEPT !.db.files = files,
                       !.serial.fileid = IF rows = <<>> THEN @ + 1 ELSE @,
                       !.db.module_files =
                           Append(@, [module_ident |-> module_id,
                                      fileid |-> file_id,
                                      filename |-> filename,
                                      mimetype |-> mimetype]),
                       !.ret = file_id]

\* The sub-select yields NULL (None) for a tag that is not in tags.
_insert_subject_for_module(s, subject_text, module_id) ==
    LET Test(r) == r.tag = subject_text
        rows == SelectSeq(s.db.tags, Test)
        tagid == IF rows = <<>> THEN None ELSE rows[1].tagid
    IN  IF Failed(s) THEN s
        ELSE [s EXCEPT !.db.moduletags =
                           Append(@, [module_ident |-> module_id,
                                      tagid |-> tagid])]

\* The insertion without the lookup by word: always a new keyword row.
_insert_keyword_always_new(s, keyword, module_id) ==
    IF Failed(s) THEN s
    ELSE [s EXCEPT !.db.keywords =
                       Append(@, [keywordid |-> s.serial.keywordid,
                                  word |-> keyword]),
                   !.serial.keywordid = @ + 1,
                   !.db.modulekeywords =
                       Append(@, [module_ident |-> module_id,
                                  keywordid |-> s.serial.keywordid])]

_insert_keyword_for_module(s, keyword, module_id) ==
    LET Test(r) == r.word = keyword
        rows == SelectSeq(s.db.keywords, Test)
        keyword_id == IF rows = <<>> THEN s.serial.keywordid
                      ELSE rows[1].keywordid
        keywords == IF rows = <<>>
                    THEN Append(s.db.keywords, [keywordid |-> keyword_id,
                                                word |-> keyword])
                    ELSE s.db.keywords
    IN  IF Failed(s) THEN s
        ELSE [s EXCEPT !.db.keywords = keywords,
                       !.serial.keywordid = IF rows = <<>> THEN @ + 1 ELSE @,
                       !.db.modulekeywords =
                           Append(@, [module_ident |-> module_id,
                                      keywordid |-> keyword_id])]

\* A connection in autocommit mode: what was written stays written.
connection_exit_autocommit(before, s) == s.db

\* Leaving "with psycopg2.connect(...) as db_connection": commit when the
\* block ended normally, roll back when an exception left it.
connection_exit(before, s) == IF Failed(s) THEN before ELSE s.db

Cursor(tables, sequences) ==
    [db |-> tables, serial |-> sequences, err |-> "", ret |-> None,
     ret_type |-> ""]

RECURSIVE insert_subjects(_, _, _, _, _)
insert_subjects(s, subjects, k, module_ident, fault) ==
    IF k > Len(subjects) THEN s
    ELSE insert_subjects(
             _insert_subject_for_module(Inject(s, fault, "subject", k),
                                        subjects[k], module_ident),
             subjects, k + 1, module_ident, fault)

RECURSIVE insert_keywords(_, _, _, _, _)
insert_keywords(s, keywords, k, module_ident, fault) ==
    IF k > Len(keywords) THEN s
    ELSE insert_keywords(
             _insert_keyword_for_module(Inject(s, fault, "keyword", k),
                                        keywords[k], module_ident),
             keywords, k + 1, module_ident, fault)

\* The statements of an insert_module block where the backend may raise.
FaultPoints(module_data) ==
    {<<"none", 0>>, <<"abstract", 1>>, <<"license", 1>>, <<"record", 1>>,
     <<"file", 1>>}
    \cup {<<"subject", k>> : k \in 1..Len(module_data.subjects)}
    \cup {<<"keyword", k>> : k \in 1..Len(module_data.keywords)}

(***************************************************************************)
(* Populator: the database operations.                                     *)
(***************************************************************************)
\* The lookup with its two parameters bound to the wrong columns.
get_module_ident_swapped_columns(tables, metadata) ==
    LET Test(r) == r.moduleid = metadata.version /\ r.version = metadata.moduleid
        rows == SelectSeq(tables.modules, Test)
    IN  IF rows = <<>> THEN None ELSE rows[1].module_ident

\* The lookup by moduleid alone.
get_module_ident_by_id(tables, metadata) ==
    LET Test(r) == r.moduleid = metadata.moduleid
        rows == SelectSeq(tables.modules, Test)
    IN  IF rows = <<>> THEN None ELSE rows[1].module_ident

get_module_ident_from_metadata(tables, metadata) ==
    LET Test(r) == r.moduleid = metadata.moduleid /\ r.version = metadata.version
        rows == SelectSeq(tables.modules, Test)
    IN  IF rows = <<>> THEN None ELSE rows[1].module_ident

get_module_type_from_ident(tables, ident) ==
    LET Test(r) == r.module_ident = ident
        rows == SelectSeq(tables.modules, Test)
    IN  IF rows = <<>> THEN "ValueError" ELSE rows[1].portal_type

\* The transaction without the insertion of the primary document.
Populator_insert_module_record_only(tables, sequences, module_data, document, fault) ==
    LET s0 == Cursor(tables, sequences)
        s1 == _insert_abstract(Inject(s0, fault, "abstract", 1),
                               module_data.abstract)
        s2 == _find_license_id_by_url(Inject(s1, fault, "license", 1),
                                      module_data.license_url)
        metadata == [moduleid |-> module_data.metadata.moduleid,
                     version |-> module_data.metadata.version,
                     portal_type |-> module_data.metadata.portal_type,
                     abstractid |-> s1.ret,
                     licenseid |-> s2.ret]
        s3 == _insert_module(Inject(s2, fault, "record", 1), metadata)
        s5 == insert_subjects(s3, module_data.subjects, 1, s3.ret, fault)
        s6 == insert_keywords(s5, module_data.keywords, 1, s3.ret, fault)
    IN  [ok |-> ~Failed(s6), error |-> s6.err,
         db |-> connection_exit(tables, s6), serial |-> s6.serial,
         module_ident |-> s3.ret, module_type |-> s3.ret_type]

Populator_insert_module(tables, sequences, module_data, document, fault) ==
    LET s0 == Cursor(tables, sequences)
        s1 == _insert_abstract(Inject(s0, fault, "abstract", 1),
                               module_data.abstract)
        s2 == _find_license_id_by_url(Inject(s1, fault, "license", 1),
                                      module_data.license_url)
        metadata == [moduleid |-> module_data.metadata.moduleid,
                     version |-> module_data.metadata.version,
                     portal_type |-> module_data.metadata.portal_type,
                     abstractid |-> s1.ret,
                     licenseid |-> s2.ret]
        s3 == _insert_module(Inject(s2, fault, "record", 1), metadata)
        module_ident == s3.ret
        module_type == s3.ret_type
        s4 == IF Failed(s3) THEN s3
              ELSE _insert_module_file(Inject(s3, fault, "file", 1),
                                       module_ident,
                                       type_to_filename(module_type),
                                       "text/xml", document)
        s5 == insert_subjects(s4, module_data.subjects, 1, module_ident, fault)
        s6 == insert_keywords(s5, module_data.keywords, 1, module_ident, fault)
    IN  [ok |-> ~Failed(s6), error |-> s6.err,
         db |-> connection_exit(tables, s6), serial |-> s6.serial,
         module_ident |-> module_ident, module_type |-> module_type]

Populator_insert_module_file(tables, sequences, module_ident, filename, mimetype, file) ==
    LET s0 == Cursor(tables, sequences)
        s1 == _insert_module_file(s0, module_ident, filename, mimetype, file)
    IN  [ok |-> ~Failed(s1), error |-> s1.err,
         db |-> connection_exit(tables, s1), serial |-> s1.serial]

\* The first file joined to the record, parsed for its module elements.
_get_module_contents(tables, ident) ==
    LET Assoc(r) == r.module_ident = ident
        mf == SelectSeq(tables.module_files, Assoc)
        Blob(r) == r.fileid = mf[1].fileid
        f == SelectSeq(tables.files, Blob)
    IN  IF mf = <<>> \/ f = <<>> THEN [ok |-> FALSE, mids |-> <<>>]
        ELSE [ok |-> TRUE, mids |-> parse_collection_xml_contents(f[1].file)]

_get_module_version(tables, ident) ==
    LET Test(r) == r.module_ident = ident
        rows == SelectSeq(tables.modules, Test)
    IN  rows[1].version

\* The callback that line 147 would install: no resource is ever present.
has_resource_never(tables, ident, filename) == FALSE

\* The probe without the record in its WHERE clause.
has_resource_any_record(tables, ident, filename) ==
    \E i \in 1..Len(tables.module_files) :
        tables.module_files[i].filename = filename

\* The callback _generate_resource_callback(ident) returns.
has_resource_callback(tables, ident, filename) ==
    \E i \in 1..Len(tables.module_files) :
        /\ tables.module_files[i].module_ident = ident
        /\ tables.module_files[i].filename = filename

(***************************************************************************)
(* The environment: content identifiers and remote hosts.                  *)
(***************************************************************************)
c1 == <<"c", 1>>
c2 == <<"c", 2>>
m100 == <<"m", 100>>
m101 == <<"m", 101>>
m102 == <<"m", 102>>
m103 == <<"m", 103>>
m104 == <<"m", 104>>
m404 == <<"m", 404>>
x9 == <<"x", 9>>

EmptyCache == <<>>

Page(mid, version, links) ==
    (to_url(mid, version) \o <<"content_info">>) :> HistoryPage(links)

Source(mid, version, document) == to_source_url(mid, version) :> document

Files(mid, version, names) ==
    (to_url(mid, version) \o <<"objectIds">>) :> ObjectIds(names)

File(mid, version, filename, mimetype, data) ==
    (to_url(mid, version) \o <<filename>>) :> Resource(mimetype, data)

\* The scenario of the specification: c1 at 1.5 with children m100, m101.
HostScenario ==
    [name |-> "scenario",
     getVersion |-> (c1 :> "1.5"),
     content |->
        Page(c1, "1.5", <<"1.5">>)
        @@ Source(c1, "1.5", Xml(c1, "1.5", CC_BY, <<>>, <<>>, <<m100, m101>>))
        @@ Page(m100, "latest", <<"1.1">>)
        @@ Source(m100, "1.1",
                  Xml(m100, "1.1", CC_BY, <<"a", "b">>, <<"Science">>, <<>>))
        @@ Files(m100, "1.1", <<"index.cnxml", "fig.png">>)
        @@ File(m100, "1.1", "fig.png", "image/png", "PNG-1")
        @@ Page(m101, "latest", <<"1.1">>)
        @@ Source(m101, "1.1", Xml(m101, "1.1", CC_BY, <<"a">>, <<>>, <<>>))
        @@ Files(m101, "1.1", <<"index.cnxml", "fig.png">>)
        @@ File(m101, "1.1", "fig.png", "image/png", "PNG-1"),
     roots |-> {c1, m100},
     caches |-> {EmptyCache}]

\* Several versions, a child listed twice, a repeated version label, a
\* repeated resource name; caches left by runs against an older host.
HostVersions ==
    [name |-> "versions",
     getVersion |-> (c1 :> "1.2"),
     content |->
        Page(c1, "1.2", <<"1.2", "1.1">>)
        @@ Source(c1, "1.2",
                  Xml(c1, "1.2", CC_BY, <<"k">>, <<>>, <<m100, m101, m100>>))
        @@ Page(m100, "latest", <<"1.2", "1.1">>)
        @@ Source(m100, "1.1",
                  Xml(m100, "1.1", CC_BY, <<"a">>, <<"Science">>, <<>>))
        @@ Source(m100, "1.2",
                  Xml(m100, "1.2", CC_BY, <<"a", "b">>, <<"Science">>, <<>>))
        @@ Files(m100, "1.1", <<"index.cnxml", "fig.png", "fig.png">>)
        @@ File(m100, "1.1", "fig.png", "image/png", "PNG-1")
        @@ Files(m100, "1.2", <<"fig.png", "index.cnxml", "index.cnxml">>)
        @@ File(m100, "1.2", "fig.png", "image/png", "PNG-1")
        @@ Page(m101, "latest", <<"1.1", "1.1">>)
        @@ Source(m101, "1.1", Xml(m101, "1.0", CC_BY, <<>>, <<>>, <<>>))
        @@ Files(m101, "1.1", <<"index.cnxml">>),
     roots |-> {c1, m100},
     caches |-> {EmptyCache,
                 Page(m100, "latest", <<"1.1">>),
                 Source(m100, "1.1", Garbled(m100, "1.1"))
                 @@ (to_url(c1, "1.2") \o <<"content_info">>) :> EmptyPage}]

\* A child reachable through two parents, a nested collection, a child the
\* host does not know.
HostDiamond ==
    [name |-> "diamond",
     getVersion |-> (c1 :> "1.3" @@ c2 :> "1.1"),
     content |->
        Page(c2, "1.1", <<"1.1">>)
        @@ Source(c2, "1.1", Xml(c2, "1.1", CC_BY, <<>>, <<>>, <<c1, m100>>))
        @@ Page(c1, "1.3", <<"1.3">>)
        @@ Source(c1, "1.3", Xml(c1, "1.3", CC_BY, <<>>, <<>>, <<m100, m404>>))
        @@ Page(m100, "latest", <<"1.1">>)
        @@ Source(m100, "1.1", Xml(m100, "1.1", CC_BY, <<"a">>, <<>>, <<>>))
        @@ Files(m100, "1.1", <<"index.cnxml">>),
     roots |-> {c2, c1},
     caches |-> {EmptyCache}]

\* Collections that list each other.
HostCycle ==
    [name |-> "cycle",
     getVersion |-> (c1 :> "1.1" @@ c2 :> "1.1"),
     content |->
        Page(c1, "1.1", <<"1.1">>)
        @@ Source(c1, "1.1", Xml(c1, "1.1", CC_BY, <<>>, <<>>, <<c2>>))
        @@ Page(c2, "1.1", <<"1.1">>)
        @@ Source(c2, "1.1", Xml(c2, "1.1", CC_BY, <<>>, <<>>, <<c1>>)),
     roots |-> {c1},
     caches |-> {EmptyCache}]

\* Documents the pipeline cannot use.
HostFailures ==
    [name |-> "failures",
     getVersion |-> (c1 :> "1.1" @@ x9 :> "1.1"),
     content |->
        Page(c1, "1.1", <<"1.1">>)
        @@ Source(c1, "1.1",
                  Xml(c1, "1.1", CC_BY, <<>>, <<>>, <<m102, m100, m101>>))
        @@ Page(m100, "latest", <<"1.2", "1.1">>)
        @@ Source(m100, "1.1", Xml(m100, "1.1", CC_BY, <<"a">>, <<>>, <<>>))
        @@ Files(m100, "1.1", <<"index.cnxml">>)
        @@ Source(m100, "1.2", Garbled(m100, "1.2"))
        @@ Page(m101, "latest", <<"1.1">>)
        @@ Source(m101, "1.1", Xml(m101, "1.1", OTHER_LICENSE, <<>>, <<>>, <<>>))
        @@ Page(m102, "latest", <<"1.1">>)
        @@ Source(m102, "1.1",
                  Xml(m102, "1.1", CC_BY, <<"a", "a">>, <<"Arts">>, <<>>))
        @@ Files(m102, "1.1", <<"index.cnxml", "fig.png">>)
        @@ (to_url(m103, "latest") \o <<"content_info">>) :> EmptyPage
        @@ Page(m104, "latest", <<"1.1">>)
        @@ Source(m104, "1.1", Xml(m104, "1.1", CC_BY, <<>>, <<>>, <<>>))
        @@ Files(m104, "1.1", <<"fig.png">>)
        @@ Page(x9, "1.1", <<"1.1">>)
        @@ Source(x9, "1.1", Xml(x9, "1.1", CC_BY, <<>>, <<>>, <<>>)),
     roots |-> {c1, m101, m103, m104, x9},
     caches |-> {EmptyCache}]

Hosts == {HostScenario, HostVersions, HostDiamond, HostCycle, HostFailures}

(***************************************************************************)
(* The Populator as a state machine.  A frame is one activation of the     *)
(* generator Populator.__call__(mid); pc is the place it runs from next.   *)
(***************************************************************************)
Frame(mid) ==
    [mid |-> mid, pc |-> "get_versions", versions |-> <<>>, i |-> 0,
     data |-> ParseError, document |-> NoDocument, m_ident |-> None,
     m_type |-> "", items |-> <<>>, j |-> 0, yielded |-> <<>>]

Top == stack[Len(stack)]

SetTop(f) == [stack EXCEPT ![Len(stack)] = f]

Observed(op, mid) ==
    [op |-> op, mid |-> mid, version |-> "", url |-> <<>>, hit |-> FALSE,
     requested |-> 0, ok |-> TRUE, extraction |-> FALSE,
     document |-> NoDocument, data |-> ParseError, ident |-> None,
     filename |-> "", file |-> NoDocument, fault |-> <<"none", 0>>,
     refetch |-> FALSE, latest_calls |-> 0]

\* The row report_activity_on_ident prints.
Report(activity, tables, ident) ==
    LET Test(r) == r.module_ident = ident
        row == SelectSeq(tables.modules, Test)[1]
    IN  [activity |-> activity, ident |-> ident, id |-> row.moduleid,
         version |-> row.version, type |-> row.portal_type,
         depth |-> Len(stack)]

EmptyTables ==
    [abstracts |-> <<>>, modules |-> <<>>, files |-> <<>>,
     module_files |-> <<>>, moduletags |-> <<>>, keywords |-> <<>>,
     modulekeywords |-> <<>>,
     licenses |-> <<[licenseid |-> 1, url |-> CC_BY]>>,
     tags |-> <<[tagid |-> 1, tag |-> "Science"]>>]

Init ==
    /\ host \in Hosts
    /\ cache \in host.caches
    /\ db = EmptyTables
    /\ serial = [abstractid |-> 1, module_ident |-> 1, fileid |-> 1,
                 keywordid |-> 1]
    /\ use_cache = TRUE
    /\ stack = <<>>
    /\ idents = <<>>
    /\ status = "idle"
    /\ failure = ""
    /\ trace = <<>>
    /\ last = Observed("none", <<"", 0>>)
    /\ runs = 0
    /\ modules = <<>>
    /\ prev = [modules |-> <<>>, status |-> "idle", use_cache |-> TRUE]
    /\ db0 = EmptyTables
    /\ invalidated = {}
    /\ answered = <<>>
    /\ procs = <<>>
    /\ unique = FALSE

\* The exception caught in the loop, which goes on to the next version.
Die_and_continue(e) ==
    /\ status' = status
    /\ failure' = failure
    /\ stack' = SetTop([Top EXCEPT !.i = @ + 1, !.pc = "resolve"])

\* An exception leaves every generator and main: the process ends.
Die(e) ==
    /\ status' = "failed"
    /\ failure' = e
    /\ stack' = <<>>

\* main: a new process for one document id, with or without --disable-cache.
Main ==
    /\ UNCHANGED <<answered, procs, unique>>
    /\ status # "running"
    /\ runs < MaxRuns
    /\ \E mid \in host.roots, enable \in BOOLEAN :
        /\ modules' = <<mid>>
        /\ use_cache' = enable
        /\ stack' = <<Frame(mid)>>
    /\ prev' = [modules |-> modules, status |-> status, use_cache |-> use_cache]
    /\ db0' = db
    /\ runs' = runs + 1
    /\ status' = "running"
    /\ failure' = ""
    /\ idents' = <<>>
    /\ trace' = <<>>
    /\ last' = Observed("main", <<"", 0>>)
    /\ UNCHANGED <<host, cache, db, serial, invalidated>>

\* Resolver.get_versions, at the first next() of Resolver.__call__.
GetVersions ==
    /\ UNCHANGED <<procs, unique>>
    /\ status = "running"
    /\ Top.pc = "get_versions"
    /\ LET r == get_versions(host, cache, use_cache, Top.mid)
       IN  /\ cache' = r.cache
           /\ last' = [Observed("get_versions", Top.mid) EXCEPT
                          !.url = r.url, !.hit = r.hit,
                          !.requested = r.requested, !.ok = r.ok,
                          !.extraction = r.extraction,
                          !.document = r.document,
                          !.latest_calls = r.latest_calls,
                          !.refetch = r.url \in invalidated]
           /\ invalidated' = IF r.extraction THEN invalidated \cup {r.url}
                             ELSE IF r.requested = 1
                             THEN invalidated \ {r.url} ELSE invalidated
           /\ answered' = IF r.ok THEN (Top.mid :> r.versions) @@ answered
                           ELSE [m \in DOMAIN answered \ {Top.mid} |->
                                     answered[m]]
           /\ IF r.ok
              THEN /\ stack' = SetTop([Top EXCEPT !.versions = r.versions,
                                                  !.i = 1, !.pc = "resolve"])
                   /\ UNCHANGED <<status, failure>>
              ELSE Die(r.error)
    /\ UNCHANGED <<host, db, serial, use_cache, idents, trace, runs, modules,
                   prev, db0>>

\* One iteration of Resolver.__call__, up to its yield.
Resolve ==
    /\ UNCHANGED <<answered, procs, unique>>
    /\ status = "running"
    /\ Top.pc = "resolve"
    /\ Top.i <= Len(Top.versions)
    /\ LET version == Top.versions[Top.i]
           r == resolve_version(host, cache, use_cache, Top.mid, version)
       IN  /\ cache' = r.cache
           /\ last' = [Observed("resolve", Top.mid) EXCEPT
                          !.version = version, !.url = r.url, !.hit = r.hit,
                          !.requested = r.requested, !.ok = r.ok,
                          !.extraction = r.extraction,
                          !.document = r.document, !.data = r.data,
                          !.refetch = r.url \in invalidated]
           /\ invalidated' = IF r.extraction THEN invalidated \cup {r.url}
                             ELSE IF r.requested = 1
                             THEN invalidated \ {r.url} ELSE invalidated
           /\ IF r.ok
              THEN /\ stack' = SetTop([Top EXCEPT
                                         !.data = r.data,
                                         !.document = r.document,
                                         !.yielded =
                                             Append(@, r.data.metadata.version),
                                         !.pc = "populate"])
                   /\ UNCHANGED <<status, failure>>
              ELSE Die(r.error)
    /\ UNCHANGED <<host, db, serial, use_cache, idents, trace, runs, modules,
                   prev, db0>>

\* Populator.__call__ from the pair it received to "yield m_ident".
Populate ==
    /\ UNCHANGED <<answered, procs, unique>>
    /\ status = "running"
    /\ Top.pc = "populate"
    /\ LET found == get_module_ident_from_metadata(db, Top.data.metadata)
       IN  IF found = None
           THEN \E fault \in FaultPoints(Top.data) :
               LET r == Populator_insert_module(db, serial, Top.data,
                                                Top.document, fault)
               IN  /\ db' = r.db
                   /\ serial' = r.serial
                   /\ last' = [Observed("insert_module", Top.mid) EXCEPT
                                  !.version = Top.data.metadata.version,
                                  !.ok = r.ok, !.data = Top.data,
                                  !.document = Top.document,
                                  !.file = Top.document,
                                  !.fault = fault,
                                  !.ident = IF r.ok THEN r.module_ident
                                            ELSE None]
                   /\ IF r.ok
                      THEN /\ trace' = Append(trace, Report("inserted", r.db,
                                                            r.module_ident))
                           /\ idents' = Append(idents, r.module_ident)
                           /\ stack' = SetTop([Top EXCEPT
                                                 !.m_ident = r.module_ident,
                                                 !.m_type = r.module_type,
                                                 !.pc = "connected"])
                           /\ UNCHANGED <<status, failure>>
                      ELSE /\ Die(r.error)
                           /\ UNCHANGED <<trace, idents>>
           ELSE LET m_type == get_module_type_from_ident(db, found)
                IN  /\ last' = [Observed("exists", Top.mid) EXCEPT
                                   !.version = Top.data.metadata.version,
                                   !.data = Top.data,
                                   !.document = Top.document,
                                   !.ident = found]
                    /\ trace' = Append(trace, Report("exists", db, found))
                    /\ idents' = Append(idents, found)
                    /\ stack' = SetTop([Top EXCEPT !.m_ident = found,
                                                   !.m_type = m_type,
                                                   !.pc = "connected"])
                    /\ UNCHANGED <<db, serial, status, failure>>
    /\ UNCHANGED <<host, cache, use_cache, runs, modules, prev, db0,
                   invalidated>>

\* After the yield: the child list of a collection, or the resource list
\* of a module (get_module_resources up to its loop).
Connected ==
    /\ UNCHANGED <<answered, procs, unique>>
    /\ status = "running"
    /\ Top.pc = "connected"
    /\ IF Top.m_type = COLLECTION
       THEN LET r == _get_module_contents(db, Top.m_ident)
            IN  /\ last' = [Observed("contents", Top.mid) EXCEPT
                               !.ok = r.ok, !.ident = Top.m_ident]
                /\ IF r.ok
                   THEN /\ stack' = SetTop([Top EXCEPT !.items = r.mids,
                                                       !.j = 1,
                                                       !.pc = "children"])
                        /\ UNCHANGED <<status, failure>>
                   ELSE Die("TypeError")
       ELSE IF Top.m_type = MODULE_
       THEN LET version == _get_module_version(db, Top.m_ident)
                url == to_url(Top.mid, version) \o <<"objectIds">>
                resp == requests_get(host, url)
                k == IF resp.kind = "list"
                     THEN IndexOf(resp.names, "index.cnxml") ELSE 0
            IN  /\ last' = [Observed("resources", Top.mid) EXCEPT
                               !.version = version, !.url = url,
                               !.requested = 1, !.ok = (k # 0),
                               !.ident = Top.m_ident]
                /\ IF k # 0
                   THEN /\ stack' = SetTop([Top EXCEPT
                                              !.items = RemoveAt(resp.names, k),
                                              !.j = 1, !.pc = "resources"])
                        /\ UNCHANGED <<status, failure>>
                   ELSE Die(IF resp.kind = "list" THEN "ValueError"
                            ELSE "SyntaxError")
       ELSE /\ last' = Observed("untyped", Top.mid)
            /\ stack' = SetTop([Top EXCEPT !.i = @ + 1, !.pc = "resolve"])
            /\ UNCHANGED <<status, failure>>
    /\ UNCHANGED <<host, cache, db, serial, use_cache, idents, trace, runs,
                   modules, prev, db0, invalidated>>

\* What the interpreter raises when generators nest deeper than its limit.
RecursionError == "RuntimeError: maximum recursion depth exceeded"

\* "for ext_ident in self(ext_mid)": a nested generator for the next child.
Child ==
    /\ UNCHANGED <<answered, procs, unique>>
    /\ status = "running"
    /\ Top.pc = "children"
    /\ Top.j <= Len(Top.items)
    /\ last' = Observed("child", Top.items[Top.j])
    /\ IF Len(stack) < MaxDepth
       THEN /\ stack' = Append(SetTop([Top EXCEPT !.j = @ + 1]),
                               Frame(Top.items[Top.j]))
            /\ UNCHANGED <<status, failure>>
       ELSE Die(RecursionError)
    /\ UNCHANGED <<host, cache, db, serial, use_cache, idents, trace, runs,
                   modules, prev, db0, invalidated>>

\* One filename of get_module_resources, and insert_module_file for it.
Resources ==
    /\ UNCHANGED <<answered, procs, unique>>
    /\ status = "running"
    /\ Top.pc = "resources"
    /\ Top.j <= Len(Top.items)
    /\ LET filename == Top.items[Top.j]
           version == _get_module_version(db, Top.m_ident)
           url == to_url(Top.mid, version) \o <<filename>>
           has_resource == has_resource_callback(db, Top.m_ident, filename)
           resp == requests_get(host, url)
           mimetype == IF resp.kind = "bin" THEN resp.content_type
                       ELSE "text/html"
           file == IF resp.kind = "bin"
                   THEN [kind |-> "bytes", data |-> resp.data] ELSE resp
           r == Populator_insert_module_file(db, serial, Top.m_ident,
                                             filename, mimetype, file)
       IN  /\ last' = [Observed("insert_module_file", Top.mid) EXCEPT
                          !.version = version, !.url = url,
                          !.hit = has_resource,
                          !.requested = IF has_resource THEN 0 ELSE 1,
                          !.ident = Top.m_ident, !.filename = filename,
                          !.file = file]
           /\ db' = IF has_resource THEN db ELSE r.db
           /\ serial' = IF has_resource THEN serial ELSE r.serial
    /\ stack' = SetTop([Top EXCEPT !.j = @ + 1])
    /\ UNCHANGED <<host, cache, use_cache, idents, trace, status, failure,
                   runs, modules, prev, db0, invalidated>>

\* The child or resource loop is exhausted: on to the next version.
NextVersion ==
    /\ UNCHANGED <<answered, procs, unique>>
    /\ status = "running"
    /\ Top.pc \in {"children", "resources"}
    /\ Top.j > Len(Top.items)
    /\ stack' = SetTop([Top EXCEPT !.i = @ + 1, !.pc = "resolve"])
    /\ last' = Observed("next_version", Top.mid)
    /\ UNCHANGED <<host, cache, db, serial, use_cache, idents, trace, status,
                   failure, runs, modules, prev, db0, invalidated>>

\* StopIteration: the generator is exhausted; the outermost one ends main.
Return ==
    /\ UNCHANGED <<answered, procs, unique>>
    /\ status = "running"
    /\ Top.pc = "resolve"
    /\ Top.i > Len(Top.versions)
    /\ stack' = SubSeq(stack, 1, Len(stack) - 1)
    /\ status' = IF Len(stack) = 1 THEN "done" ELSE status
    /\ last' = Observed("return", Top.mid)
    /\ UNCHANGED <<host, cache, db, serial, use_cache, idents, trace, failure,
                   runs, modules, prev, db0, invalidated>>

Next ==
    \/ Main
    \/ GetVersions
    \/ Resolve
    \/ Populate
    \/ Connected
    \/ Child
    \/ Resources
    \/ NextVersion
    \/ Return

Spec == Init /\ [][Next]_vars

(***************************************************************************)
(* Two processes, each running main on one module id against the same      *)
(* database at the same time.  They are runs of two users: each has the    *)
(* modules_cache of its own home directory, empty at the start.  Every     *)
(* Populator method opens a connection of its own, so the lookup, the      *)
(* insert transaction, each probe and each file insertion are separate     *)
(* steps that the other process can come between.  The schema is not part  *)
(* of the program: `unique` says whether it forbids a second row for a     *)
(* (moduleid, version).                                                    *)
(***************************************************************************)
run_vars == <<cache, use_cache, stack, idents, status, failure, trace, last,
              runs, modules, prev, db0, invalidated, answered>>

Proc(mid) ==
    [mid |-> mid, pc |-> "get_versions", cache |-> EmptyCache,
     versions |-> <<>>, i |-> 0, data |-> ParseError,
     document |-> NoDocument, found |-> None, absent |-> FALSE,
     m_ident |-> None, m_type |-> "", items |-> <<>>, j |-> 0,
     idents |-> <<>>, inserted |-> <<>>, failure |-> ""]

InitRace ==
    /\ host \in {HostScenario, HostVersions}
    /\ db = EmptyTables
    /\ serial = [abstractid |-> 1, module_ident |-> 1, fileid |-> 1,
                 keywordid |-> 1]
    /\ unique \in BOOLEAN
    /\ \E a, b \in {m100, m101} : procs = <<Proc(a), Proc(b)>>
    /\ cache = EmptyCache
    /\ use_cache = TRUE
    /\ stack = <<>>
    /\ idents = <<>>
    /\ status = "idle"
    /\ failure = ""
    /\ trace = <<>>
    /\ last = Observed("none", <<"", 0>>)
    /\ runs = 0
    /\ modules = <<>>
    /\ prev = [modules |-> <<>>, status |-> "idle", use_cache |-> TRUE]
    /\ db0 = EmptyTables
    /\ invalidated = {}
    /\ answered = <<>>

\* The exception leaves the generator and main of process p.
Fails(p, e) == [procs[p] EXCEPT !.pc = "failed", !.failure = e]

HasRecord(tables, metadata) ==
    \E k \in 1..Len(tables.modules) :
        /\ tables.modules[k].moduleid = metadata.moduleid
        /\ tables.modules[k].version = metadata.version

RaceGetVersions(p) ==
    /\ procs[p].pc = "get_versions"
    /\ LET r == get_versions(host, procs[p].cache, TRUE, procs[p].mid)
       IN  procs' = [procs EXCEPT ![p] =
                        IF r.ok
                        THEN [procs[p] EXCEPT !.cache = r.cache,
                                              !.versions = r.versions,
                                              !.i = 1, !.pc = "resolve"]
                        ELSE [Fails(p, r.error) EXCEPT !.cache = r.cache]]
    /\ UNCHANGED <<host, db, serial, unique>>
    /\ UNCHANGED run_vars

\* The next pair of the resolver, or its StopIteration.
RaceResolve(p) ==
    /\ procs[p].pc = "resolve"
    /\ IF procs[p].i > Len(procs[p].versions)
       THEN procs' = [procs EXCEPT ![p].pc = "done"]
       ELSE LET r == resolve_version(host, procs[p].cache, TRUE, procs[p].mid,
                                     procs[p].versions[procs[p].i])
            IN  procs' = [procs EXCEPT ![p] =
                             IF r.ok
                             THEN [procs[p] EXCEPT !.cache = r.cache,
                                                   !.data = r.data,
                                                   !.document = r.document,
                                                   !.pc = "check"]
                             ELSE [Fails(p, r.error) EXCEPT
                                      !.cache = r.cache]]
    /\ UNCHANGED <<host, db, serial, unique>>
    /\ UNCHANGED run_vars

\* get_module_ident_from_metadata, and the "exists" branch up to the yield.
RaceCheck(p) ==
    /\ procs[p].pc = "check"
    /\ LET found == get_module_ident_from_metadata(db, procs[p].data.metadata)
           absent == ~HasRecord(db, procs[p].data.metadata)
       IN  procs' = [procs EXCEPT ![p] =
                        IF found = None
                        THEN [procs[p] EXCEPT !.found = found,
                                              !.absent = absent,
                                              !.pc = "insert"]
                        ELSE [procs[p] EXCEPT
                                 !.found = found,
                                 !.absent = absent,
                                 !.m_ident = found,
                                 !.m_type =
                                     get_module_type_from_ident(db, found),
                                 !.idents = Append(@, found),
                                 !.pc = "connected"]]
    /\ UNCHANGED <<host, db, serial, unique>>
    /\ UNCHANGED run_vars

\* insert_module and the yield.  Under a unique constraint the INSERT INTO
\* modules of a pair that is there by now raises IntegrityError.
RaceInsert(p) ==
    /\ procs[p].pc = "insert"
    /\ LET r == Populator_insert_module(db, serial, procs[p].data,
                                        procs[p].document, <<"none", 0>>)
           refused == unique /\ HasRecord(db, procs[p].data.metadata)
       IN  /\ serial' = r.serial
           /\ db' = IF refused THEN db ELSE r.db
           /\ procs' = [procs EXCEPT ![p] =
                           IF refused THEN Fails(p, "IntegrityError")
                           ELSE IF ~r.ok THEN Fails(p, r.error)
                           ELSE [procs[p] EXCEPT
                                    !.m_ident = r.module_ident,
                                    !.m_type = r.module_type,
                                    !.idents = Append(@, r.module_ident),
                                    !.inserted = Append(@, r.module_ident),
                                    !.pc = "connected"]]
    /\ UNCHANGED <<host, unique>>
    /\ UNCHANGED run_vars

\* The resource list of the module (get_module_resources up to its loop).
RaceConnected(p) ==
    /\ procs[p].pc = "connected"
    /\ LET version == _get_module_version(db, procs[p].m_ident)
           url == to_url(procs[p].mid, version) \o <<"objectIds">>
           resp == requests_get(host, url)
           k == IF resp.kind = "list"
                THEN IndexOf(resp.names, "index.cnxml") ELSE 0
       IN  procs' = [procs EXCEPT ![p] =
                        IF k # 0
                        THEN [procs[p] EXCEPT
                                 !.items = RemoveAt(resp.names, k),
                                 !.j = 1, !.pc = "probe"]
                        ELSE Fails(p, IF resp.kind = "list" THEN "ValueError"
                                      ELSE "SyntaxError")]
    /\ UNCHANGED <<host, db, serial, unique>>
    /\ UNCHANGED run_vars

\* has_resource_callback(filename) for the next filename of the list.
RaceProbe(p) ==
    /\ procs[p].pc = "probe"
    /\ procs' = [procs EXCEPT ![p] =
                    IF procs[p].j > Len(procs[p].items)
                    THEN [procs[p] EXCEPT !.i = @ + 1, !.pc = "resolve"]
                    ELSE IF has_resource_callback(db, procs[p].m_ident,
                                                  procs[p].items[procs[p].j])
                    THEN [procs[p] EXCEPT !.j = @ + 1]
                    ELSE [procs[p] EXCEPT !.pc = "attach"]]
    /\ UNCHANGED <<host, db, serial, unique>>
    /\ UNCHANGED run_vars

\* The request for the resource, and insert_module_file.
RaceAttach(p) ==
    /\ procs[p].pc = "attach"
    /\ LET filename == procs[p].items[procs[p].j]
           version == _get_module_version(db, procs[p].m_ident)
           resp == requests_get(host,
                                to_url(procs[p].mid, version) \o <<filename>>)
           mimetype == IF resp.kind = "bin" THEN resp.content_type
                       ELSE "text/html"
           file == IF resp.kind = "bin"
                   THEN [kind |-> "bytes", data |-> resp.data] ELSE resp
           r == Populator_insert_module_file(db, serial, procs[p].m_ident,
                                             filename, mimetype, file)
       IN  /\ db' = r.db
           /\ serial' = r.serial
    /\ procs' = [procs EXCEPT ![p].j = @ + 1, ![p].pc = "probe"]
    /\ UNCHANGED <<host, unique>>
    /\ UNCHANGED run_vars

NextRace ==
    \/ \E p \in DOMAIN procs : RaceGetVersions(p)
    \/ \E p \in DOMAIN procs : RaceResolve(p)
    \/ \E p \in DOMAIN procs : RaceCheck(p)
    \/ \E p \in DOMAIN procs : RaceInsert(p)
    \/ \E p \in DOMAIN procs : RaceConnected(p)
    \/ \E p \in DOMAIN procs : RaceProbe(p)
    \/ \E p \in DOMAIN procs : RaceAttach(p)

SpecRace == InitRace /\ [][NextRace]_vars

(***************************************************************************)
(* The document cache by itself: the three methods of the Resolver that    *)
(* read and write modules_cache, called in any order with any url and      *)
(* document.                                                               *)
(***************************************************************************)
CacheUrls ==
    {to_source_url(m100, "1.1"), to_source_url(c1, "1.5"),
     to_url(m100, "latest") \o <<"content_info">>}

CacheDocuments ==
    {requests_get(HostScenario, u) : u \in CacheUrls}
    \cup {Garbled(m100, "1.1"), EmptyPage}

InitCache ==
    /\ host = HostScenario
    /\ cache = EmptyCache
    /\ db = EmptyTables
    /\ serial = [abstractid |-> 1, module_ident |-> 1, fileid |-> 1,
                 keywordid |-> 1]
    /\ use_cache = TRUE
    /\ stack = <<>>
    /\ idents = <<>>
    /\ status = "idle"
    /\ failure = ""
    /\ trace = <<>>
    /\ last = Observed("none", <<"", 0>>)
    /\ runs = 0
    /\ modules = <<>>
    /\ prev = [modules |-> <<>>, status |-> "idle", use_cache |-> TRUE]
    /\ db0 = EmptyTables
    /\ invalidated = {}
    /\ answered = <<>>
    /\ procs = <<>>
    /\ unique = FALSE

cache_fixed == <<host, db, serial, use_cache, stack, idents, status, failure,
                 trace, runs, modules, prev, db0, invalidated, answered,
                 procs, unique>>

\* Resolver._cache_document(url, document)
CachePut ==
    /\ \E url \in CacheUrls, document \in CacheDocuments :
          LET r == _cache_document(cache, url, document)
          IN  /\ cache' = r.cache
              /\ last' = [Observed("put", <<"", 0>>) EXCEPT
                             !.url = url, !.document = document,
                             !.ok = r.ok, !.hit = url \in DOMAIN cache]
    /\ UNCHANGED cache_fixed

\* Resolver._retrieve_document(url)
CacheGet ==
    /\ \E url \in CacheUrls :
          last' = [Observed("get", <<"", 0>>) EXCEPT
                      !.url = url,
                      !.document = _retrieve_document(cache, url),
                      !.hit = url \in DOMAIN cache]
    /\ UNCHANGED cache
    /\ UNCHANGED cache_fixed

\* Resolver._invalidate_document(url)
CacheInvalidate ==
    /\ \E url \in CacheUrls :
          /\ cache' = _invalidate_document(cache, url)
          /\ last' = [Observed("invalidate", <<"", 0>>) EXCEPT
                         !.url = url, !.hit = url \in DOMAIN cache]
    /\ UNCHANGED cache_fixed

NextCache ==
    \/ CachePut
    \/ CacheGet
    \/ CacheInvalidate

SpecCache == InitCache /\ [][NextCache]_vars

(***************************************************************************)
(* Properties.                                                             *)
(***************************************************************************)
\* The current process repeats the argument of a process that completed.
SecondRun ==
    /\ status \in {"running", "done", "failed"}
    /\ prev.status = "done"
    /\ prev.modules = modules

NothingInserted ==
    /\ db = db0
    /\ \A k \in 1..Len(trace) : trace[k].activity = "exists"

\* C1 (as stated): after a run on an identifier has completed, a second run
\* on the same identifier, against the unchanged host, reports "exists" for
\* every pair it resolves and leaves the tables as the first run left them.
C1_SecondRunInsertsNothing == SecondRun => NothingInserted

\* C1 (amended): the same, for a second run that does not disable a cache
\* the first run read its documents from.
C1_SecondRunSameDocumentsInsertsNothing ==
    (SecondRun /\ ~(prev.use_cache /\ ~use_cache)) => NothingInserted

\* C1 witness: a second run over a collection and its children has finished,
\* every record reported as existing.
C1_Witness ==
    /\ SecondRun
    /\ ~(prev.use_cache /\ ~use_cache)
    /\ status = "done"
    /\ Len(trace) >= 3
    /\ \E k \in 1..Len(trace) : trace[k].depth > 1

\* C2: the modules table never holds two rows with the same moduleid and
\* version.
C2_OneRecordPerIdAndVersion ==
    \A a, b \in 1..Len(db.modules) :
        (/\ db.modules[a].moduleid = db.modules[b].moduleid
         /\ db.modules[a].version = db.modules[b].version) => a = b

\* C2 witness: within one run a pair was inserted and then met again, both
\* through a repeated version label and through a second visit of the child.
C2_Witness ==
    /\ \E a, b \in 1..Len(trace) :
          /\ a + 1 = b
          /\ trace[a].activity = "inserted"
          /\ trace[b].ident = trace[a].ident
          /\ trace[b].depth = trace[a].depth
    /\ \E a, b \in 1..Len(trace) :
          /\ a + 1 < b
          /\ trace[a].activity = "inserted"
          /\ trace[b].ident = trace[a].ident

(***************************************************************************)
(* The traversal read off the final state: which versions of an id the     *)
(* run used (the history page it left in the cache), the record of an      *)
(* (id, version) pair and the children written in its stored document.     *)
(***************************************************************************)
VersionsUsed(mid) ==
    LET latest == IF startswith(mid, "m") THEN "latest"
                  ELSE get_latest_version(host, mid)
        url == to_url(mid, latest) \o <<"content_info">>
    IN  IF url \in DOMAIN cache /\ cache[url].kind = "html"
        THEN Reverse(cache[url].links) ELSE <<>>

RecordOf(mid, version) ==
    CHOOSE r \in Range(db.modules) : r.moduleid = mid /\ r.version = version

PrimaryAssociations(r) ==
    {a \in 1..Len(db.module_files) :
        /\ db.module_files[a].module_ident = r.module_ident
        /\ db.module_files[a].filename = TYPES_TO_FILENAMES[r.portal_type]}

PrimaryDocument(r) ==
    LET a == CHOOSE a \in PrimaryAssociations(r) : TRUE
        f == CHOOSE f \in Range(db.files) :
                 f.fileid = db.module_files[a].fileid
    IN  f.file

StoredChildren(r) ==
    IF r.portal_type = COLLECTION THEN PrimaryDocument(r).children ELSE <<>>

\* Depth-first pre-order from mid: each version's ident, then the walks of
\* the children of that version's document, in document order.
RECURSIVE WalkVersions(_, _, _), WalkChildren(_, _, _)
WalkVersions(mid, k, fuel) ==
    IF fuel = 0 \/ k > Len(VersionsUsed(mid)) THEN <<>>
    ELSE LET r == RecordOf(mid, VersionsUsed(mid)[k])
         IN  <<r.module_ident>>
             \o WalkChildren(StoredChildren(r), 1, fuel)
             \o WalkVersions(mid, k + 1, fuel)
WalkChildren(mids, j, fuel) ==
    IF j > Len(mids) THEN <<>>
    ELSE WalkVersions(mids[j], 1, fuel - 1) \o WalkChildren(mids, j + 1, fuel)

Reported == [k \in 1..Len(trace) |-> trace[k].ident]

\* C3: idents are emitted depth-first in pre-order.  Every reported record
\* is emitted, in the order of the reports; a finished run has emitted
\* exactly the pre-order walk from its argument, children in the order of
\* the stored collection document; and the run of the scenario (c1 at 1.5
\* with children m100, m101, empty database) inserts c1, m100, m101 in that
\* order and emits their idents in that order.
C3_DepthFirstPreOrder ==
    /\ idents = Reported
    /\ status = "done" => idents = WalkVersions(modules[1], 1, MaxDepth)
    /\ (/\ status = "done" /\ host = HostScenario /\ db0 = EmptyTables
        /\ modules = <<c1>>)
       => /\ idents = <<RecordOf(c1, "1.5").module_ident,
                        RecordOf(m100, "1.1").module_ident,
                        RecordOf(m101, "1.1").module_ident>>
          /\ [k \in 1..3 |-> trace[k].activity]
                 = <<"inserted", "inserted", "inserted">>
          /\ RecordOf(c1, "1.5").module_ident < RecordOf(m100, "1.1").module_ident
          /\ RecordOf(m100, "1.1").module_ident < RecordOf(m101, "1.1").module_ident

\* C3 witness: the scenario's first run has finished.
C3_Witness ==
    /\ status = "done" /\ host = HostScenario /\ db0 = EmptyTables
    /\ modules = <<c1>>
    /\ Len(idents) = 3

AllIds == <<c1, c2, m100, m101, m102, m103, m104, m404, x9>>

\* How often the run enters Populator.__call__(mid): once for the argument,
\* and once per occurrence of mid in the document of each version of each
\* visit of a parent.
RECURSIVE Visits(_, _), VisitsVia(_, _, _), Listed(_, _, _)
Visits(mid, fuel) ==
    IF fuel = 0 THEN 0
    ELSE (IF mid = modules[1] THEN 1 ELSE 0) + VisitsVia(mid, 1, fuel)
VisitsVia(mid, p, fuel) ==
    IF p > Len(AllIds) THEN 0
    ELSE (IF id_to_type(AllIds[p]) # COLLECTION THEN 0
          ELSE LET n == Visits(AllIds[p], fuel - 1)
               IN  IF n = 0 THEN 0 ELSE n * Listed(mid, AllIds[p], 1))
         + VisitsVia(mid, p + 1, fuel)
Listed(mid, parent, k) ==
    IF k > Len(VersionsUsed(parent)) THEN 0
    ELSE Count(StoredChildren(RecordOf(parent, VersionsUsed(parent)[k])), mid)
         + Listed(mid, parent, k + 1)

\* C4: duplicates are emitted.  Only the first report of a record in a run
\* can be "inserted", every later one is "exists"; and a finished run has
\* emitted the ident of each record once per visit of its identifier (per
\* path from the argument through the listing parent records) and per
\* occurrence of its version label.
C4_DuplicatesEmitted ==
    /\ \A a, b \in 1..Len(trace) :
          (a < b /\ trace[a].ident = trace[b].ident)
              => trace[b].activity = "exists"
    /\ status = "done" =>
          \A r \in Range(db.modules) :
              Count(idents, r.module_ident)
                  = Visits(r.moduleid, MaxDepth)
                    * Count(VersionsUsed(r.moduleid), r.version)

\* C4 witness: a finished run emitted the ident of a child twice, once as
\* "inserted" and once as "exists", the child being listed by two parents.
C4_Witness ==
    /\ status = "done"
    /\ host = HostDiamond
    /\ \E a, b \in 1..Len(trace) :
          /\ a < b
          /\ trace[a].ident = trace[b].ident
          /\ trace[a].depth # trace[b].depth
          /\ trace[a].activity = "inserted"
          /\ Count(idents, trace[a].ident) = 2

\* The ids a walk from mid meets, by the stored documents (fuel bounds the
\* walk where collections list each other).
RECURSIVE ReachableFrom(_, _), ReachableVia(_, _, _)
ReachableFrom(mid, fuel) ==
    IF fuel = 0 THEN {}
    ELSE {mid} \cup ReachableVia(mid, 1, fuel)
ReachableVia(mid, k, fuel) ==
    IF k > Len(VersionsUsed(mid)) THEN {}
    ELSE LET mids == StoredChildren(RecordOf(mid, VersionsUsed(mid)[k]))
         IN  UNION {ReachableFrom(mids[j], fuel - 1) : j \in 1..Len(mids)}
             \cup ReachableVia(mid, k + 1, fuel)

\* C5: the recursion over collection contents terminates for every finite
\* membership graph: no run ends because the nesting of generators never
\* bottoms out, and a finished run has visited every identifier reachable
\* from its argument.
C5_RecursionTerminates ==
    /\ failure # RecursionError
    /\ status = "done" =>
          \A mid \in ReachableFrom(modules[1], MaxDepth) :
              \A k \in 1..Len(VersionsUsed(mid)) :
                  \E e \in Range(trace) :
                      e.id = mid /\ e.version = VersionsUsed(mid)[k]

NoOtherUrlTouched(u) ==
    \A v \in (DOMAIN cache \cup DOMAIN cache') \ {u} :
        v \in DOMAIN cache /\ v \in DOMAIN cache' /\ cache'[v] = cache[v]

\* C6: when extraction fails on the document of a url (the history page in
\* get_versions, a source document in Resolver.__call__) the process fails
\* with no cache entry left for that url; the entry stays absent until a
\* call needs the url again; and a call that needs a url without an entry
\* requests it from the host exactly once and stores what the host sent,
\* so that the entry that failed is not served again.
C6_CacheInvalidation ==
    [][IF last'.op \in {"get_versions", "resolve"}
       THEN LET u == last'.url
            IN  /\ NoOtherUrlTouched(u)
                /\ last'.extraction =>
                      /\ u \notin DOMAIN cache'
                      /\ u \in invalidated'
                      /\ status' = "failed"
                /\ u \in invalidated => u \notin DOMAIN cache
                /\ u \notin DOMAIN cache =>
                      /\ ~last'.hit
                      /\ last'.requested = 1
                      /\ last'.document = requests_get(host, u)
                      /\ ~last'.extraction =>
                            /\ u \in DOMAIN cache'
                            /\ cache'[u] = requests_get(host, u)
       ELSE cache' = cache /\ invalidated' = invalidated]_vars

\* C6 witness: a cached entry failed extraction in an earlier process; this
\* process, with the cache enabled, fetched the url again and parsed it.
C6_Witness ==
    /\ last.op = "resolve"
    /\ last.refetch
    /\ use_cache
    /\ last.requested = 1
    /\ last.ok
    /\ cache[last.url] = requests_get(host, last.url)

NoTwoBlobsWithOneHash ==
    \A a, b \in 1..Len(db.files) :
        db.files[a].md5 = db.files[b].md5 => a = b

\* The number of _insert_module_file calls that committed in the step that
\* led to the current state.
FileInsertions ==
    IF last.op = "insert_module" /\ last.ok THEN 1
    ELSE IF last.op = "insert_module_file" /\ ~last.hit THEN 1
    ELSE 0

\* C7: no two rows of files have the same md5; a file insertion whose md5
\* is already in files adds no blob and associates the existing one, one
\* whose md5 is new adds exactly one blob; and each file insertion adds
\* exactly one row to module_files.
C7_ContentAddressedFiles ==
    [][/\ NoTwoBlobsWithOneHash'
       /\ Len(db'.module_files) = Len(db.module_files) + FileInsertions'
       /\ FileInsertions' = 0 => db'.files = db.files
       /\ FileInsertions' = 1 =>
             LET digest == <<"md5", last'.file>>
                 known == {f \in Range(db.files) : f.file = last'.file}
                 assoc == db'.module_files[Len(db'.module_files)]
             IN  /\ assoc.module_ident = last'.ident
                 /\ \E f \in Range(db'.files) :
                       /\ f.fileid = assoc.fileid
                       /\ f.file = last'.file
                       /\ f.md5 = digest
                       /\ known # {} => f \in known
                 /\ Len(db'.files) = Len(db.files)
                                     + (IF known = {} THEN 1 ELSE 0)
                 /\ SubSeq(db'.files, 1, Len(db.files)) = db.files]_vars

\* C7 witness: two different records are associated with one blob, the
\* second association made by an insertion that found the blob.
C7_Witness ==
    /\ FileInsertions = 1
    /\ Len(db.files) < Len(db.module_files)
    /\ \E a \in 1..(Len(db.module_files) - 1) :
          /\ db.module_files[a].fileid
                 = db.module_files[Len(db.module_files)].fileid
          /\ db.module_files[a].module_ident
                 # db.module_files[Len(db.module_files)].module_ident

Tables == {"abstracts", "modules", "files", "module_files", "moduletags",
           "keywords", "modulekeywords", "licenses", "tags"}

\* C8: an insert_module that raises at any statement leaves every table as
\* it was before the transaction began and ends the process; and no step
\* removes or changes a row committed earlier.
C8_InsertIsAllOrNothing ==
    [][/\ (last'.op = "insert_module" /\ ~last'.ok) =>
             (db' = db /\ status' = "failed")
       /\ \A T \in Tables :
             /\ Len(db'[T]) >= Len(db[T])
             /\ SubSeq(db'[T], 1, Len(db[T])) = db[T]]_vars

\* C8 witness: an insert failed at its second keyword, after the abstract,
\* the record, the file and a keyword had been written in the transaction,
\* in a process that had committed an insert before.
C8_Witness ==
    /\ last.op = "insert_module"
    /\ ~last.ok
    /\ last.fault = <<"keyword", 2>>
    /\ db # db0
    /\ Len(trace) >= 1

EachRecordHasOnePrimaryFile ==
    \A r \in Range(db.modules) : Cardinality(PrimaryAssociations(r)) = 1

\* C9: a successful insert of an absent (id, version) adds exactly one
\* modules row of the identifier's type, exactly one module_files row for
\* it, under the type's primary filename with mimetype text/xml, one
\* moduletags row per subject and one modulekeywords row per keyword; and
\* in every state each record has exactly one association under its primary
\* filename.
C9_ShapeOfInsert ==
    [][/\ EachRecordHasOnePrimaryFile'
       /\ (last'.op = "insert_module" /\ last'.ok) =>
             LET r == db'.modules[Len(db'.modules)]
                 mf == db'.module_files[Len(db'.module_files)]
                 k == Len(last'.data.keywords)
                 n == Len(last'.data.subjects)
             IN  /\ Len(db'.modules) = Len(db.modules) + 1
                 /\ r.module_ident = last'.ident
                 /\ r.moduleid = last'.mid
                 /\ r.version = last'.version
                 /\ (startswith(last'.mid, "m") => r.portal_type = "Module")
                 /\ (startswith(last'.mid, "c") => r.portal_type = "Collection")
                 /\ Len(db'.module_files) = Len(db.module_files) + 1
                 /\ mf.module_ident = r.module_ident
                 /\ (startswith(last'.mid, "m") => mf.filename = "index.cnxml")
                 /\ (startswith(last'.mid, "c") => mf.filename = "collection.xml")
                 /\ mf.mimetype = "text/xml"
                 /\ Len(db'.modulekeywords) = Len(db.modulekeywords) + k
                 /\ \A a \in 1..k :
                       db'.modulekeywords[Len(db.modulekeywords) + a]
                           .module_ident = r.module_ident
                 /\ Len(db'.moduletags) = Len(db.moduletags) + n
                 /\ \A a \in 1..n :
                       db'.moduletags[Len(db.moduletags) + a]
                           .module_ident = r.module_ident]_vars

\* C9 witness: m100 at 1.1 with keywords a, b and subject Science has been
\* inserted.
C9_Witness ==
    /\ last.op = "insert_module"
    /\ last.ok
    /\ last.mid = m100
    /\ last.data.keywords = <<"a", "b">>
    /\ last.data.subjects = <<"Science">>
    /\ Len(db.modulekeywords) = 2

\* C10: the pair yielded for version V of a collection has its document
\* from the source url of the host's latest version and carries V as its
\* metadata version whatever the document says; the document for version V
\* of a module is from the source url of V.
C10_CollectionSourceIsLatest ==
    last.op = "resolve" =>
        /\ startswith(last.mid, "c") =>
              last.url = <<last.mid, get_latest_version(host, last.mid),
                           "source">>
        /\ startswith(last.mid, "m") =>
              last.url = <<last.mid, last.version, "source">>
        /\ last.requested = 1 => last.document = requests_get(host, last.url)
        /\ (last.requested = 0 /\ last.ok) => last.document = cache[last.url]
        /\ last.ok => last.data.metadata.version = last.version

\* C10 witness: an older version of a collection was resolved from the
\* document of the latest version, which names another version.
C10_Witness ==
    /\ last.op = "resolve"
    /\ last.ok
    /\ startswith(last.mid, "c")
    /\ last.version # get_latest_version(host, last.mid)
    /\ last.document.ver # last.version
    /\ last.data.metadata.version = last.version

\* C11: with the cache enabled, a call of get_versions for an id whose
\* history page an earlier call obtained, and which has not been deleted
\* from the cache since, returns the sequence the earlier call returned,
\* sends no request to the host and leaves the cache as it is.
C11_VersionsAreStable ==
    [][(/\ last'.op = "get_versions"
        /\ use_cache
        /\ last'.mid \in DOMAIN answered) =>
           /\ last'.ok
           /\ stack'[Len(stack')].versions = answered[last'.mid]
           /\ last'.requested = 0
           /\ cache' = cache]_vars

\* C11 witness: a second process, cache enabled, asked for the versions of a
\* collection the first process had asked for, starting from an empty cache,
\* and was served from the cache.
C11_Witness ==
    /\ last.op = "get_versions"
    /\ host = HostScenario
    /\ runs = 2
    /\ use_cache
    /\ startswith(last.mid, "c")
    /\ last.requested = 0
    /\ Top.versions = answered[last.mid]
    /\ Top.versions # <<>>

\* C12: get_versions returns the version labels of the history page it
\* obtained (the host's page when it was requested) in the reverse of the
\* page's order; each iteration of the resolver that yields carries the
\* label at its position as metadata version; and a generator that returns
\* has yielded one pair per label, in the order of the labels.
C12_ResolveOrder ==
    [][/\ (last'.op = "get_versions" /\ last'.ok) =>
             LET links == last'.document.links
                 versions == stack'[Len(stack')].versions
             IN  /\ Len(versions) = Len(links)
                 /\ \A k \in 1..Len(links) :
                       versions[k] = links[Len(links) + 1 - k]
       /\ (last'.op = "get_versions" /\ last'.requested = 1) =>
             last'.document = requests_get(host, last'.url)
       /\ (last'.op = "resolve" /\ last'.ok) =>
             LET f == stack'[Len(stack')]
             IN  /\ f.yielded = SubSeq(f.versions, 1, f.i)
                 /\ last'.data.metadata.version = f.versions[f.i]
       /\ last'.op = "return" => Top.yielded = Top.versions]_vars

\* C12 witness: the second of two versions has been yielded, the host's
\* page listing the newer one first.
C12_Witness ==
    /\ last.op = "resolve"
    /\ last.ok
    /\ Top.versions = <<"1.1", "1.2">>
    /\ Top.yielded = <<"1.1", "1.2">>
    /\ requests_get(host, <<Top.mid, "latest", "content_info">>).links
           = <<"1.2", "1.1">>

\* C13: two processes at work on one database.  The lookup of a process is
\* right when it is made (it reports absence exactly when no row has the
\* pair), yet without a unique constraint the table can come to hold two
\* rows for one pair, and only so: the two rows were inserted by the two
\* processes, each after a lookup that saw the pair absent; with a unique
\* constraint there is never a second row, and a process fails with
\* IntegrityError only after a lookup that saw the pair absent.
C13_CheckThenInsertRace ==
    /\ \A p \in DOMAIN procs :
          procs[p].pc \in {"insert", "connected", "probe", "attach"} =>
              (procs[p].absent <=> procs[p].found = None)
    /\ \A p \in DOMAIN procs :
          procs[p].pc = "insert" => procs[p].absent
    /\ \A a, b \in 1..Len(db.modules) :
          (/\ a # b
           /\ db.modules[a].moduleid = db.modules[b].moduleid
           /\ db.modules[a].version = db.modules[b].version) =>
              /\ ~unique
              /\ \E p, q \in DOMAIN procs :
                    /\ p # q
                    /\ db.modules[a].module_ident \in Range(procs[p].inserted)
                    /\ db.modules[b].module_ident \in Range(procs[q].inserted)
    /\ \A p \in DOMAIN procs :
          procs[p].failure = "IntegrityError" =>
              /\ unique
              /\ procs[p].absent
              /\ HasRecord(db, procs[p].data.metadata)

\* C13 witness: both processes have finished and the table holds two rows
\* for one (moduleid, version).
C13_Witness ==
    /\ procs # <<>>
    /\ \A p \in DOMAIN procs : procs[p].pc = "done"
    /\ \E a, b \in 1..Len(db.modules) :
          /\ a # b
          /\ db.modules[a].moduleid = db.modules[b].moduleid
          /\ db.modules[a].version = db.modules[b].version

\* The record of a generator frame and its primary document are in tables.
Committed(tables, f) ==
    \E r \in {tables.modules[k] : k \in 1..Len(tables.modules)} :
        /\ r.module_ident = f.m_ident
        /\ r.moduleid = f.mid
        /\ \E a \in 1..Len(tables.module_files) :
              /\ tables.module_files[a].module_ident = r.module_ident
              /\ tables.module_files[a].filename
                     = TYPES_TO_FILENAMES[r.portal_type]

\* C14: (a) a file is attached to a module as a resource only when the
\* module's record and its index.cnxml association were committed by an
\* earlier step, and in module_files every association under another name
\* than the record's primary filename comes after the record's primary
\* association; (b) an insert made in a nested generator happens only when
\* the record and the collection.xml association of every enclosing
\* collection were committed by an earlier step.
C14_OrderingOfWrites ==
    [][/\ (last'.op = "insert_module_file" /\ ~last'.hit) =>
             /\ Committed(db, Top)
             /\ Top.m_ident = last'.ident
             /\ Top.m_type = MODULE_
       /\ \A k \in 1..Len(db'.module_files) :
             \E r \in {db'.modules[n] : n \in 1..Len(db'.modules)} :
                 /\ r.module_ident = db'.module_files[k].module_ident
                 /\ \E a \in 1..k :
                       /\ db'.module_files[a].module_ident = r.module_ident
                       /\ db'.module_files[a].filename
                              = TYPES_TO_FILENAMES[r.portal_type]
       /\ last'.op = "insert_module" =>
             \A d \in 1..(Len(stack) - 1) :
                 /\ stack[d].m_type = COLLECTION
                 /\ Committed(db, stack[d])]_vars

\* C14 witness: a child of a collection has been inserted in a nested
\* generator, after a resource had been attached to an earlier child.
C14_Witness ==
    /\ last.op = "insert_module"
    /\ last.ok
    /\ Len(stack) >= 2
    /\ \E a \in 1..Len(db.module_files) :
          db.module_files[a].filename = "fig.png"

\* C15: a step that fails ends the process with its exception: the parse of
\* the k-th version's document failing after exactly the pairs of versions
\* 1..k-1 were yielded, a history page that cannot be read, a statement of
\* the insert transaction, a resource list that cannot be used.  The failing
\* step emits no ident and writes nothing, and a failed process takes no
\* further step: what follows is a new process.
C15_FailFast ==
    [][/\ (/\ last'.op = "resolve"
           /\ ~parse_to_metadata(id_to_type(last'.mid), last'.document).ok) =>
             /\ Top.yielded = SubSeq(Top.versions, 1, Top.i - 1)
             /\ last'.version = Top.versions[Top.i]
             /\ status' = "failed"
       /\ (/\ last'.op = "get_versions"
           /\ ~history_links(last'.document).ok) => status' = "failed"
       /\ (/\ last'.op = "insert_module"
           /\ last'.fault # <<"none", 0>>) => status' = "failed"
       /\ ~last'.ok => status' = "failed"
       /\ status' = "failed" =>
             /\ failure' # ""
             /\ stack' = <<>>
             /\ idents' = idents
             /\ trace' = trace
             /\ db' = db
       /\ status = "failed" =>
             /\ last'.op = "main"
             /\ status' = "running"
             /\ db' = db
             /\ cache' = cache]_vars

\* C15 witness: under collection c1 the second version of m100 could not be
\* parsed: the process has failed having emitted c1, its first child and the
\* first version of m100, and the next child m101 has no record.
C15_Witness ==
    /\ host = HostFailures
    /\ modules = <<c1>>
    /\ status = "failed"
    /\ last.op = "resolve"
    /\ last.mid = m100
    /\ last.version = "1.2"
    /\ Len(idents) = 3
    /\ \A r \in Range(db.modules) : r.moduleid # m101

Associated(tables, ident, filename) ==
    {a \in 1..Len(tables.module_files) :
        /\ tables.module_files[a].module_ident = ident
        /\ tables.module_files[a].filename = filename}

\* C16: the resource list of a module record is the host's list without its
\* first index.cnxml; each of its names is handled in turn: one the record
\* is associated with already is not requested and nothing is written, one
\* it is not associated with is requested and associated, with what the host
\* sent, by exactly one new row; and module_files never holds two rows for
\* one record and filename.
C16_OnlyMissingResources ==
    [][/\ \A a, b \in 1..Len(db'.module_files) :
             (/\ db'.module_files[a].module_ident
                    = db'.module_files[b].module_ident
              /\ db'.module_files[a].filename = db'.module_files[b].filename)
                 => a = b
       /\ (last'.op = "resources" /\ last'.ok) =>
             LET names == requests_get(host, last'.url).names
                 items == stack'[Len(stack')].items
             IN  /\ Len(items) = Len(names) - 1
                 /\ \A n \in 1..Len(names) :
                       Count(items, names[n])
                           = Count(names, names[n])
                             - (IF names[n] = "index.cnxml" THEN 1 ELSE 0)
       /\ last'.op = "insert_module_file" =>
             LET present == Associated(db, last'.ident, last'.filename) # {}
                 sent == requests_get(host, last'.url)
             IN  /\ last'.ident = Top.m_ident
                 /\ last'.filename = Top.items[Top.j]
                 /\ last'.url = <<Top.mid, last'.version, last'.filename>>
                 /\ present => (db' = db /\ last'.requested = 0)
                 /\ ~present =>
                       /\ last'.requested = 1
                       /\ Len(db'.module_files) = Len(db.module_files) + 1
                       /\ Cardinality(Associated(db', last'.ident,
                                                 last'.filename)) = 1
                       /\ sent.kind = "bin" =>
                             \E f \in Range(db'.files) :
                                 /\ f.file.data = sent.data
                                 /\ f.fileid
                                        = db'.module_files[
                                              Len(db'.module_files)].fileid]_vars

\* C16 witness: the host lists fig.png twice for a module; the first was
\* requested and associated, the second has been found and passed over.
C16_Witness ==
    /\ last.op = "insert_module_file"
    /\ last.hit
    /\ last.requested = 0
    /\ last.filename = "fig.png"
    /\ Top.items = <<"fig.png", "fig.png">>
    /\ Top.j = 3
    /\ Cardinality(Associated(db, last.ident, "fig.png")) = 1

\* C17: _cache_document(url, document) succeeds whether or not the url has
\* an entry, and leaves `document` as the entry of the url: what a lookup
\* of the url returns next.
C17_PutInsertsOrOverwrites ==
    last.op = "put" =>
        /\ last.ok
        /\ _retrieve_document(cache, last.url) = last.document

\* C18 (as stated): get_versions of any id asks the host for the latest
\* version label, once, and obtains the history page of the url built from
\* the id and that label.
C18_HistoryPageOfLatestLabel ==
    last.op = "get_versions" =>
        /\ last.latest_calls = 1
        /\ last.mid \in DOMAIN host.getVersion
        /\ last.url = <<last.mid, host.getVersion[last.mid], "content_info">>

\* C18 (amended): get_versions of a collection id asks the host for the
\* latest version label, once, and obtains the history page of the url built
\* from the id and that label; get_versions of a module id asks for no
\* label and obtains the page of the url built from the id and the literal
\* 'latest'.  In both cases the page is obtained through the cache, under
\* that url, and no answer to getVersion is ever stored.
C18_HistoryPageOfLatestLabelOrLiteral ==
    /\ last.op = "get_versions" =>
          /\ startswith(last.mid, "m") =>
                /\ last.latest_calls = 0
                /\ last.url = <<last.mid, "latest", "content_info">>
          /\ ~startswith(last.mid, "m") =>
                /\ last.latest_calls = 1
                /\ last.url = <<last.mid,
                                IF last.mid \in DOMAIN host.getVersion
                                THEN host.getVersion[last.mid]
                                ELSE "Not Found",
                                "content_info">>
          /\ last.requested = 1 => last.document = requests_get(host, last.url)
          /\ (last.ok /\ last.url \in DOMAIN cache) =>
                cache[last.url] = last.document
          /\ (last.ok /\ use_cache) => last.url \in DOMAIN cache
    /\ \A u \in DOMAIN cache : u[Len(u)] \in {"content_info", "source"}

\* C18 witness: the versions of a module were read from the page under
\* 'latest', the host having been asked for that page and for no label.
C18_Witness ==
    /\ last.op = "get_versions"
    /\ last.ok
    /\ startswith(last.mid, "m")
    /\ last.latest_calls = 0
    /\ last.requested = 1
    /\ Top.versions = <<"1.1", "1.2">>
    /\ cache[<<last.mid, "latest", "content_info">>] = last.document

\* C19: an insert_module whose metadata names a subject that is not in tags
\* fails: the process ends, no ident is emitted and the tables hold no row
\* of the record.
C19_UnknownTagIsFatal ==
    (/\ last.op = "insert_module"
     /\ \E k \in 1..Len(last.data.subjects) :
           \A g \in 1..Len(db.tags) : db.tags[g].tag # last.data.subjects[k])
        => /\ ~last.ok
           /\ status = "failed"
           /\ ~HasRecord(db, last.data.metadata)
           /\ \A g \in 1..Len(db.moduletags) : db.moduletags[g].tagid # None

\* C20: keywords never holds two rows with one word; a committed
\* insert_module adds one keywords row for each word of the record that had
\* no row, none for a word that had one, and one modulekeywords row per
\* keyword of the record, in order, joining the record to the row of that
\* word; an insert that fails leaves keywords as it was.
C20_KeywordGetOrCreate ==
    [][/\ \A a, b \in 1..Len(db'.keywords) :
             db'.keywords[a].word = db'.keywords[b].word => a = b
       /\ \A a, b \in 1..Len(db'.keywords) :
             db'.keywords[a].keywordid = db'.keywords[b].keywordid => a = b
       /\ (last'.op = "insert_module" /\ last'.ok) =>
             LET kws == last'.data.keywords
                 had == {db.keywords[n].word : n \in 1..Len(db.keywords)}
                 new == {kws[n] : n \in 1..Len(kws)} \ had
                 base == Len(db.modulekeywords)
             IN  /\ Len(db'.keywords) = Len(db.keywords) + Cardinality(new)
                 /\ SubSeq(db'.keywords, 1, Len(db.keywords)) = db.keywords
                 /\ {db'.keywords[n].word :
                        n \in (Len(db.keywords) + 1)..Len(db'.keywords)} = new
                 /\ Len(db'.modulekeywords) = base + Len(kws)
                 /\ \A a \in 1..Len(kws) :
                       /\ db'.modulekeywords[base + a].module_ident
                              = last'.ident
                       /\ \E n \in 1..Len(db'.keywords) :
                             /\ db'.keywords[n].word = kws[a]
                             /\ db'.keywords[n].keywordid
                                    = db'.modulekeywords[base + a].keywordid
       /\ ~(last'.op = "insert_module" /\ last'.ok) =>
             (db'.keywords = db.keywords
              /\ db'.modulekeywords = db.modulekeywords)]_vars

\* C20 witness: the second version of m100 has been inserted with keywords
\* a and b, a having its row from the first version: two keyword rows,
\* three associations.
C20_Witness ==
    /\ last.op = "insert_module"
    /\ last.ok
    /\ last.data.keywords = <<"a", "b">>
    /\ last.version = "1.2"
    /\ Len(db.keywords) = 2
    /\ Len(db.modulekeywords) = 3

\* The records the current process has inserted.
CreatedInRun ==
    {db.modules[k] : k \in (Len(db0.modules) + 1)..Len(db.modules)}

\* The blobs the record's association under its primary filename points to.
PrimaryBlobs(r) ==
    {db.module_files[a].fileid : a \in PrimaryAssociations(r)}

\* C21: the records a process inserts for one collection, one per version
\* label, are all associated under collection.xml with one and the same
\* blob, the document of the host's latest version, so that the child list
\* read back for each of them is the same; and the generator of a
\* collection reads, for each version after the first that the process
\* inserted, the child list it read for the version before.
C21_VersionsShareOneDocument ==
    [][/\ \A r1, r2 \in CreatedInRun' :
             (/\ r1.portal_type = COLLECTION
              /\ r1.moduleid = r2.moduleid) =>
                 /\ PrimaryBlobs(r1)' = PrimaryBlobs(r2)'
                 /\ Cardinality(PrimaryBlobs(r1)') = 1
                 /\ _get_module_contents(db', r1.module_ident)
                        = _get_module_contents(db', r2.module_ident)
       /\ (/\ last'.op = "contents"
           /\ last'.ok
           /\ Top.i > 1
           /\ \E r \in CreatedInRun :
                 /\ r.moduleid = Top.mid
                 /\ r.version = Top.versions[Top.i - 1]
           /\ \E r \in CreatedInRun : r.module_ident = Top.m_ident) =>
             stack'[Len(stack')].items = Top.items]_vars

\* C21 witness: the process has inserted two versions of a collection, both
\* associated with one blob, and has read the child list of the second.
C21_Witness ==
    /\ last.op = "contents"
    /\ last.ok
    /\ Top.i = 2
    /\ Top.items # <<>>
    /\ \E r1, r2 \in CreatedInRun :
          /\ r1.moduleid = Top.mid
          /\ r2.moduleid = Top.mid
          /\ r1.version # r2.version
          /\ r2.module_ident = Top.m_ident
          /\ PrimaryBlobs(r1) = PrimaryBlobs(r2)
          /\ PrimaryDocument(r1).ver # r1.version

\* C22: in a process started with --disable-cache every get_versions and
\* every iteration of the resolver requests its url from the host, whether
\* or not the cache holds an entry for it, and works on what the host sent;
\* the entry that was there does not stand in the way of storing; the call
\* fails only when the document cannot be used; after a call that succeeded
\* the entry of the url is the document the host sent, after one that failed
\* the url has no entry; and no other entry is touched.
C22_DisabledCacheAlwaysFetches ==
    [][(~use_cache' /\ last'.op \in {"get_versions", "resolve"}) =>
          LET u == last'.url
              sent == requests_get(host, u)
          IN  /\ last'.requested = 1
              /\ ~last'.hit
              /\ last'.document = sent
              /\ ~last'.ok => last'.extraction
              /\ last'.ok => (u \in DOMAIN cache' /\ cache'[u] = sent)
              /\ ~last'.ok => u \notin DOMAIN cache'
              /\ NoOtherUrlTouched(u)]_vars

\* C22 witness: a process with the cache disabled resolved the first version
\* of m100 from the host although the cache it started with held an
\* unparsable document under that url (and, still, an unreadable page of c1).
C22_Witness ==
    /\ ~use_cache
    /\ runs = 1
    /\ host = HostVersions
    /\ last.op = "resolve"
    /\ last.mid = m100
    /\ last.version = "1.1"
    /\ last.ok
    /\ cache[last.url] = requests_get(host, last.url)
    /\ <<c1, "1.2", "content_info">> \in DOMAIN cache
    /\ cache[<<c1, "1.2", "content_info">>] = EmptyPage

====
